---- MODULE Spec2Model ----
(***************************************************************************)
(* Model of the session-scoped subprocess streaming orchestrator of        *)
(* src/src/server/index.ts: the WebSocket chat endpoint /ws/chat/:id, the  *)
(* session map, the active-process registry, the prompt assembly and the   *)
(* child-process event handlers (stdout/stderr 'data', 'close', 'error').  *)
(*                                                                         *)
(* Text is a sequence of one-character strings, so that concatenation,     *)
(* lower-casing, substring search and the session-id regular expressions   *)
(* are computed, not assumed.                                              *)
(***************************************************************************)
EXTENDS Integers, Sequences, FiniteSets, TLC

(***************************************************************************)
(* Bounds of the model.                                                    *)
(***************************************************************************)
\* Child processes spawned in one run (process ids are 1..MaxProcs).
MaxProcs == 2
\* 'data' events delivered in one run (all processes, both streams).
MaxChunks == 2

\* The longest data.content of the escaping specification.
MaxEscLen == 2
\* set_model frames handled on one connection.
MaxSetModels == 1
\* Messages a session holds when a run of the prompt specification starts.
MaxHistory == 2

\* Session ids a client may name in /ws/chat/:sessionId.
SessionIds == {"s1"}
\* WebSocket connections; each connects at most once.
Conns == {1}
\* "No entry" in a Map (sessions.get / activeProcesses.get returning undefined).
None == 0

(***************************************************************************)
(* Text helpers (String.prototype.toLowerCase / includes / match).         *)
(***************************************************************************)
Upper == <<"A","B","C","D","E","F","G","H","I","J","K","L","M",
           "N","O","P","Q","R","S","T","U","V","W","X","Y","Z">>
Lower == <<"a","b","c","d","e","f","g","h","i","j","k","l","m",
           "n","o","p","q","r","s","t","u","v","w","x","y","z">>
Digits == {"0","1","2","3","4","5","6","7","8","9"}

ToLowerChar(ch) ==
    IF \E i \in 1..26 : Upper[i] = ch
    THEN Lower[CHOOSE i \in 1..26 : Upper[i] = ch]
    ELSE ch

ToLowerCase(text) == [i \in 1..Len(text) |-> ToLowerChar(text[i])]

\* text.includes(needle)
Includes(text, needle) ==
    \E i \in 0..(Len(text) - Len(needle)) :
        \A j \in 1..Len(needle) : text[i + j] = needle[j]

\* Character classes of the session-id patterns, lower-cased (all carry /i).
IdClass == {Lower[i] : i \in 1..26} \cup Digits \cup {"-"}
SpaceClass == {" ", "\n", "\t", "\r"}

\* One literal character of a pattern.
Lit(ch) == [cs |-> {ch}, min |-> 1, max |-> 1, cap |-> FALSE]
\* A literal string, as pattern elements.
Lits(str) == [i \in 1..Len(str) |-> Lit(str[i])]
\* [_-]?
OptSep == [cs |-> {"_", "-"}, min |-> 0, max |-> 1, cap |-> FALSE]
\* [:\s]+
Seps == [cs |-> {":"} \cup SpaceClass, min |-> 1, max |-> 1000, cap |-> FALSE]
\* ([a-zA-Z0-9-]+)
IdGroup == [cs |-> IdClass, min |-> 1, max |-> 1000, cap |-> TRUE]

NoMatch == <<>>

\* Length of the longest run of characters of class cs starting at text[i],
\* at most max long (a greedy quantifier; none of the patterns below needs
\* backtracking, since no class overlaps the element that follows it).
RECURSIVE Run(_, _, _, _)
Run(text, i, cs, max) ==
    IF max = 0 \/ i > Len(text) \/ ToLowerChar(text[i]) \notin cs
    THEN 0
    ELSE 1 + Run(text, i + 1, cs, max - 1)

\* Match pattern elements k.. against text at position i; the result is
\* <<captured text>> on success and NoMatch on failure.
RECURSIVE MatchFrom(_, _, _, _, _)
MatchFrom(pat, k, text, i, captured) ==
    IF k > Len(pat) THEN <<captured>>
    ELSE LET n == Run(text, i, pat[k].cs, pat[k].max)
         IN  IF n < pat[k].min THEN NoMatch
             ELSE MatchFrom(pat, k + 1, text, i + n,
                            IF pat[k].cap THEN SubSeq(text, i, i + n - 1)
                                          ELSE captured)

\* text.match(pattern): the leftmost match, as <<match[1]>>, or NoMatch.
Match(text, pat) ==
    LET hits == {i \in 1..Len(text) : MatchFrom(pat, 1, text, i, <<>>) # NoMatch}
    IN  IF hits = {} THEN NoMatch
        ELSE MatchFrom(pat, 1, text,
                       CHOOSE i \in hits : \A j \in hits : i <= j, <<>>)

\* /Session ID: ([a-zA-Z0-9-]+)/i
PatSessionId ==
    Lits(<<"s","e","s","s","i","o","n"," ","i","d",":"," ">>) \o <<IdGroup>>
\* /session[_-]?id[:\s]+([a-zA-Z0-9-]+)/i
PatSessionSepId ==
    Lits(<<"s","e","s","s","i","o","n">>) \o <<OptSep>>
        \o Lits(<<"i","d">>) \o <<Seps, IdGroup>>
\* /Resuming session ([a-zA-Z0-9-]+)/i
PatResuming ==
    Lits(<<"r","e","s","u","m","i","n","g"," ","s","e","s","s","i","o","n"," ">>)
        \o <<IdGroup>>
\* /Session: ([a-zA-Z0-9-]+)/i
PatSession ==
    Lits(<<"s","e","s","s","i","o","n",":"," ">>) \o <<IdGroup>>
\* /session=([a-zA-Z0-9-]+)/i
PatSessionEq ==
    Lits(<<"s","e","s","s","i","o","n","=">>) \o <<IdGroup>>

\* sessionPatterns of the stdout handler, in list order.
StdoutPatterns == <<PatSessionId, PatSessionSepId, PatResuming, PatSession>>
\* sessionPatterns of the stderr handler, in list order.
StderrPatterns ==
    <<PatSessionId, PatSessionSepId, PatResuming, PatSession, PatSessionEq>>

\* The for-loop over sessionPatterns: the first pattern of the list that
\* matches gives the id; NoMatch when none does.
RECURSIVE FirstPatternMatch(_, _, _)
FirstPatternMatch(text, pats, k) ==
    IF k > Len(pats) THEN NoMatch
    ELSE IF Match(text, pats[k]) # NoMatch THEN Match(text, pats[k])
    ELSE FirstPatternMatch(text, pats, k + 1)

\* "session", the needle of text.toLowerCase().includes('session').
SessionWord == <<"s","e","s","s","i","o","n">>

\* The fixed fallback content of the 'close' handler (abbreviated).
Fallback == <<"N","o"," ","r","e","s","p","o","n","s","e">>

(***************************************************************************)
(* The prompt of a turn (fullPrompt) and the command it is launched with.  *)
(***************************************************************************)
\* The ids of AVAILABLE_MODELS.
AvailableModels ==
    {"claude-sonnet-4", "claude-sonnet-4.5", "claude-haiku-4.5",
     "claude-opus-4.5", "gpt-5", "gpt-5-mini", "gpt-5.1", "gpt-5.1-codex",
     "gpt-5.1-codex-mini", "gpt-5.1-codex-max", "gpt-5.2", "gpt-5.2-codex",
     "gpt-4.1", "gemini-3-pro-preview"}
\* currentModel when the server starts.
DefaultModel == "claude-sonnet-4"

Human == <<"H","u","m","a","n">>
Assistant == <<"A","s","s","i","s","t","a","n","t">>
\* msg.role === 'user' ? 'Human' : 'Assistant'
RoleLabel(role) == IF role = "user" THEN Human ELSE Assistant

\* The ceiling on the characters of a prior message that enter the prompt.
TruncateAt == 2000
\* '... [truncated]'
TruncationMarker ==
    <<".",".","."," ","[","t","r","u","n","c","a","t","e","d","]">>

\* A rendering that never truncates.
WholeContent(content) == content

\* msg.content.length > 2000
\*     ? msg.content.substring(0, 2000) + '... [truncated]' : msg.content
RenderContent(content) ==
    IF Len(content) > TruncateAt
    THEN SubSeq(content, 1, TruncateAt) \o TruncationMarker
    ELSE content

\* `${role}: ${content}`
RenderMessage(msg) ==
    RoleLabel(msg.role) \o <<":", " ">> \o RenderContent(msg.content)

\* parts.join(sep)
RECURSIVE Join(_, _)
Join(parts, sep) ==
    IF parts = <<>> THEN <<>>
    ELSE IF Len(parts) = 1 THEN parts[1]
    ELSE parts[1] \o sep \o Join(Tail(parts), sep)

\* The whole list, the message just pushed included.
AllMessages(messages) == messages

\* session.messages.slice(0, -1): all but the message just pushed.
PreviousMessages(messages) == SubSeq(messages, 1, Len(messages) - 1)

\* 'Here is our conversation history:\n\n'
Preamble ==
    <<"H","e","r","e"," ","i","s"," ","o","u","r"," ","c","o","n","v","e",
      "r","s","a","t","i","o","n"," ","h","i","s","t","o","r","y",":","\n",
      "\n">>
\* '\n\nHuman: '
NewTurn == <<"\n","\n","H","u","m","a","n",":"," ">>
\* '\n\nPlease respond to my latest message above, keeping our conversation
\* context in mind.'
Postamble ==
    <<"\n","\n","P","l","e","a","s","e"," ","r","e","s","p","o","n","d"," ",
      "t","o"," ","m","y"," ","l","a","t","e","s","t"," ","m","e","s","s",
      "a","g","e"," ","a","b","o","v","e",","," ","k","e","e","p","i","n",
      "g"," ","o","u","r"," ","c","o","n","v","e","r","s","a","t","i","o",
      "n"," ","c","o","n","t","e","x","t"," ","i","n"," ","m","i","n","d",
      ".">>

\* fullPrompt, from session.messages after the push and data.content.
FullPrompt(messages, content) ==
    LET previousMessages == PreviousMessages(messages)
        history == Join([i \in 1..Len(previousMessages) |->
                            RenderMessage(previousMessages[i])],
                        <<"\n", "\n">>)
    IN  IF Len(previousMessages) > 0
        THEN Preamble \o history \o NewTurn \o content \o Postamble
        ELSE content

\* text.replace(/ch/g, repl): every character ch of text replaced by the
\* text repl (computed by halves, and a part without ch is left whole, so
\* that long texts need no deep recursion).
RECURSIVE ReplaceAll(_, _, _)
ReplaceAll(text, ch, repl) ==
    IF \A i \in 1..Len(text) : text[i] # ch THEN text
    ELSE IF Len(text) = 1 THEN repl
    ELSE ReplaceAll(SubSeq(text, 1, Len(text) \div 2), ch, repl)
             \o ReplaceAll(SubSeq(text, Len(text) \div 2 + 1, Len(text)),
                           ch, repl)

\* The backtick character, which no string literal here can hold: a text
\* has this one element in its place.
Backtick == "backtick"

\* The replacements of the escaping chain, in the order of the calls:
\* backslash, double quote, backtick, dollar sign, exclamation mark are
\* given a backslash, a newline becomes backslash-n, a carriage return
\* is removed.
EscapeSteps ==
    <<[ch |-> "\\", repl |-> <<"\\", "\\">>],
      [ch |-> "\"", repl |-> <<"\\", "\"">>],
      [ch |-> Backtick, repl |-> <<"\\", Backtick>>],
      [ch |-> "$", repl |-> <<"\\", "$">>],
      [ch |-> "!", repl |-> <<"\\", "!">>],
      [ch |-> "\n", repl |-> <<"\\", "n">>],
      [ch |-> "\r", repl |-> <<>>]>>

\* text.replace(...).replace(...)...: the steps applied one after the other.
RECURSIVE ApplySteps(_, _)
ApplySteps(text, steps) ==
    IF steps = <<>> THEN text
    ELSE ApplySteps(ReplaceAll(text, steps[1].ch, steps[1].repl), Tail(steps))

\* An escaping chain that escapes the backslashes last.
EscapeBackslashLast(fullPrompt) ==
    ApplySteps(fullPrompt, Tail(EscapeSteps) \o <<EscapeSteps[1]>>)

\* escapedPrompt
EscapePrompt(fullPrompt) == ApplySteps(fullPrompt, EscapeSteps)

\* currentWorkspace when the server starts: process.cwd(), here "C:\w".
CurrentWorkspace == <<"C", ":", "\\", "w">>
\* session.workspace.replace(/\\/g, '/')
WorkspacePath(workspace) == ReplaceAll(workspace, "\\", <<"/">>)

\* A command that resumes the captured copilotSessionId, when there is one.
CommandResuming(session, content) ==
    LET fullPrompt == FullPrompt(session.messages, content)
    IN  [fullPrompt |-> fullPrompt,
         escapedPrompt |-> EscapePrompt(fullPrompt),
         model |-> session.model,
         addDir |-> WorkspacePath(session.workspace)
                        \o session.copilotSessionId,
         cwd |-> session.workspace]

\* The command line and the options of spawn, by their parts that differ
\* between turns: the prompt (fullPrompt, and escapedPrompt as it stands
\* between the double quotes after --prompt), the --model argument, the
\* --add-dir argument and the working directory.
Command(session, content) ==
    LET fullPrompt == FullPrompt(session.messages, content)
    IN  [fullPrompt |-> fullPrompt,
         escapedPrompt |-> EscapePrompt(fullPrompt),
         model |-> session.model,
         addDir |-> WorkspacePath(session.workspace),
         cwd |-> session.workspace]

(***************************************************************************)
(* Inputs.                                                                 *)
(***************************************************************************)
\* data.content of a 'message' frame.
Contents == {<<"h","i">>}
\* Chunks a child process may write on stdout or stderr.
ChunkTexts ==
    {<<"o","k">>,
     <<"S","e","s","s","i","o","n",":"," ","a","1">>,
     \* "Session: b sessionid:c": two patterns match, with different tokens
     <<"S","e","s","s","i","o","n",":"," ","b"," ",
       "s","e","s","s","i","o","n","i","d",":","c">>}
\* The chunks among them without session information.
PlainTexts == {<<"o","k">>}
\* Chunks of ordinary output, one of which has the word "session" in it
\* ("no session").
ProseTexts == {<<"o","k">>, <<"n","o"," ","s","e","s","s","i","o","n">>}
\* All chunk texts of the specifications.
AllTexts == ChunkTexts \cup PlainTexts \cup ProseTexts
\* data.model of a 'set_model' frame: an id of the available-model list and
\* one that is not in it.
ModelIds == {"gpt-5", "gpt-6"}
\* The outcome of spawn(command, ...): the child runs ("spawned"); it could
\* not be started and the failure is reported by events ("failed", e.g. a
\* missing cwd: 'error' is emitted, then 'close'); or spawn itself throws
\* ("threw", e.g. a command line too long for the system) and the handler's
\* catch block answers.
ProcKinds == {"spawned", "failed", "threw"}
\* The exit code a child reports with 'close': success or failure.
ExitCodes == {0, 1}

VARIABLES
    sessions,          \* Map sessionId -> Session object (None: no entry)
    heap,              \* the Session objects, by the connection that made them
    activeProcesses,   \* Map sessionId -> ChildProcess (None: no entry)
    conn,              \* per WebSocket connection: state, sessionId, session,
                       \* and the model_set frames sent on it (acks)
    procs,             \* per turn, the child process spawned for it: its
                       \* command, what it wrote (output), what of that was
                       \* accumulated (content), the signal sent, exit code
    sent               \* per turn, the frames sent for it, in sending order

vars == <<sessions, heap, activeProcesses, conn, procs, sent>>

Pids == 1..Len(procs)

\* The 'data' events delivered so far.
RECURSIVE SumChunks(_)
SumChunks(ps) == IF ps = <<>> THEN 0 ELSE ps[1].nchunks + SumChunks(Tail(ps))

NewSession ==
    [messages |-> <<>>, copilotSessionId |-> NoMatch, model |-> DefaultModel,
     workspace |-> CurrentWorkspace]

Init ==
    /\ sessions = [s \in SessionIds |-> None]
    /\ heap = [c \in Conns |-> NewSession]
    /\ activeProcesses = [s \in SessionIds |-> None]
    /\ conn = [c \in Conns |-> [state |-> "new", sid |-> "s1", session |-> None,
                               acks |-> <<>>]]
    /\ procs = <<>>
    /\ sent = [p \in 1..MaxProcs |-> <<>>]

\* ws.send(...) of the frames of one turn on connection c: they are
\* delivered only while the socket is open. The log keeps, for each turn,
\* the frames sent for it in the order they were sent on the connection.
Send(log, c, frames) ==
    IF conn[c].state = "open" /\ frames # <<>>
    THEN [log EXCEPT ![frames[1].turn] = @ \o frames]
    ELSE log

(***************************************************************************)
(* Handlers.                                                               *)
(***************************************************************************)
\* wsInstance.app.ws('/ws/chat/:sessionId'): look the session up, create it
\* when the map has none, and keep a reference to it for this connection.
WsConnect(c, sid) ==
    /\ conn[c].state = "new"
    /\ IF sessions[sid] = None
       THEN /\ sessions' = [sessions EXCEPT ![sid] = c]
            /\ conn' = [conn EXCEPT ![c] =
                            [state |-> "open", sid |-> sid, session |-> c,
                             acks |-> <<>>]]
       ELSE /\ sessions' = sessions
            /\ conn' = [conn EXCEPT ![c] =
                            [state |-> "open", sid |-> sid,
                             session |-> sessions[sid], acks |-> <<>>]]
    /\ UNCHANGED <<heap, activeProcesses, procs, sent>>

\* A set_model handler that leaves the session as it is.
SetModelNone(session, model) == session

\* session.model = data.model
SetModel(session, model) == [session EXCEPT !.model = model]

\* The frames the set_model branch sends.
ModelSetFrames(model) == <<[type |-> "model_set", model |-> model]>>

\* data.type === 'set_model': store the model in the session and
\* acknowledge it; nothing else is looked at or changed.
WsSetModel(c, model) ==
    /\ conn[c].state = "open"
    /\ Len(conn[c].acks) < MaxSetModels
    /\ heap' = [heap EXCEPT ![conn[c].session] = SetModel(@, model)]
    /\ conn' = [conn EXCEPT ![c].acks = @ \o ModelSetFrames(model)]
    /\ UNCHANGED <<sessions, activeProcesses, procs, sent>>

\* A push that puts the Message in the place of the last one.
PushOver(messages, msg) ==
    IF messages = <<>> THEN <<msg>>
    ELSE [messages EXCEPT ![Len(messages)] = msg]

\* session.messages.push(msg)
Push(messages, msg) == Append(messages, msg)

\* spawn(command, [], {...}): the new ChildProcess, before any event; when
\* spawn throws there is no child, and the turn's record is closed at once.
Spawn(c, kind, command) ==
    [sid |-> conn[c].sid, conn |-> c, kind |-> kind, command |-> command,
     state |-> IF kind = "threw" THEN "closed" ELSE "running",
     sig |-> "none", content |-> <<>>, nchunks |-> 0, output |-> <<>>,
     exit |-> <<>>]

\* The registry after activeProcesses.set(sessionId, copilotProcess).
Register(sid, p) == [activeProcesses EXCEPT ![sid] = p]

\* The frame of the 'error' handler, and of the catch block, for turn p.
ErrorFrames(p) == <<[type |-> "error", turn |-> p, content |-> <<>>]>>

\* data.type === 'message': append the user Message, echo it, spawn the
\* child and register it under the connection's session id. When spawn
\* throws, the catch block sends an error frame and nothing is registered.
\* A Message's turn stands for its uuid: it tells the turns' Messages apart.
\* (The session name does not steer the handler.)
WsMessage(c, content, kind) ==
    /\ conn[c].state = "open"
    /\ Len(procs) < MaxProcs
    /\ LET p == Len(procs) + 1
           o == conn[c].session
           echo == <<[type |-> "user_message", turn |-> p, content |-> content]>>
           pushed == [heap[o] EXCEPT !.messages =
                         Push(@, [role |-> "user", content |-> content,
                                  turn |-> p])]
       IN  /\ heap' = [heap EXCEPT ![o] = pushed]
           /\ procs' = Append(procs, Spawn(c, kind, Command(pushed, content)))
           /\ IF kind = "threw"
              THEN /\ sent' = Send(sent, c, echo \o ErrorFrames(p))
                   /\ activeProcesses' = activeProcesses
              ELSE /\ sent' = Send(sent, c, echo)
                   /\ activeProcesses' = Register(conn[c].sid, p)
    /\ UNCHANGED <<sessions, conn>>

\* proc.kill(): SIGTERM is sent to the child, and no other signal is ever
\* sent. The child either ends on it (honoured: sig = "term") or ignores it
\* (sig = "ignored": the child handles SIGTERM, or it is a grandchild of the
\* killed shell that keeps the pipes open). No effect on a child that was
\* never started or has closed.
Kill(ps, p, honoured) ==
    IF ps[p].state = "running" /\ ps[p].kind = "spawned"
    THEN [ps EXCEPT ![p].sig = IF honoured THEN "term" ELSE "ignored"]
    ELSE ps

\* The frames the cancel branch sends after killing process p.
CancelFrames(p) == <<[type |-> "cancelled", turn |-> p, content |-> <<>>]>>

\* data.type === 'cancel': kill the registered process, drop the registry
\* entry and send 'cancelled'; nothing when no process is registered.
WsCancel(c, honoured) ==
    /\ conn[c].state = "open"
    /\ LET sid == conn[c].sid
           p == activeProcesses[sid]
       IN  IF p # None
           THEN /\ procs' = Kill(procs, p, honoured)
                /\ activeProcesses' = [activeProcesses EXCEPT ![sid] = None]
                /\ sent' = Send(sent, c, CancelFrames(p))
           ELSE UNCHANGED <<procs, activeProcesses, sent>>
    /\ UNCHANGED <<sessions, heap, conn>>

\* The result of the pattern loop for each chunk text the model uses, per
\* handler (tabulated once; the loop itself is FirstPatternMatch).
StdoutScan == [t \in AllTexts |-> FirstPatternMatch(t, StdoutPatterns, 1)]
StderrScan == [t \in AllTexts |-> FirstPatternMatch(t, StderrPatterns, 1)]
\* text.toLowerCase().includes('session'), tabulated likewise.
MentionsSession == [t \in AllTexts |-> Includes(ToLowerCase(t), SessionWord)]

\* A scan that stores every match, whether or not an id is already stored.
LatchLast(session, found) ==
    IF found # NoMatch
    THEN [session EXCEPT !.copilotSessionId = found[1]]
    ELSE session

\* The session's copilotSessionId after a chunk was scanned: set to the
\* loop's match (found), unless it is already set.
Latch(session, found) ==
    IF found # NoMatch /\ session.copilotSessionId = NoMatch
    THEN [session EXCEPT !.copilotSessionId = found[1]]
    ELSE session

\* One 'data' event of a child: the stream it came from and its text.
Chunk(stream, text) == [stream |-> stream, text |-> text]

\* Whether the child process p can still deliver 'data' events.
CanEmit(p) ==
    /\ procs[p].state = "running"
    /\ procs[p].kind = "spawned"
    /\ SumChunks(procs) < MaxChunks

\* A stdout handler that accumulates a chunk and sends no frame for it.
StdoutFramesNone(p, text) == <<>>

\* A stdout handler that sends the frame of a chunk twice.
StdoutFramesTwice(p, text) ==
    <<[type |-> "stream", turn |-> p, content |-> text],
      [type |-> "stream", turn |-> p, content |-> text]>>

\* The frames the stdout handler sends for a chunk.
StdoutFrames(p, text) == <<[type |-> "stream", turn |-> p, content |-> text]>>

\* copilotProcess.stdout.on('data'): scan for a session id, accumulate the
\* text and forward it as a stream frame.
StdoutData(p, text) ==
    /\ p \in Pids
    /\ CanEmit(p)
    /\ LET c == procs[p].conn
           o == conn[c].session
       IN  /\ heap' = [heap EXCEPT ![o] = Latch(@, StdoutScan[text])]
           /\ procs' = [procs EXCEPT ![p].content = @ \o text,
                                     ![p].nchunks = @ + 1,
                                     ![p].output = Append(@, Chunk("stdout", text))]
           /\ sent' = Send(sent, c, StdoutFrames(p, text))
    /\ UNCHANGED <<sessions, activeProcesses, conn>>

\* A forwarding test that looks only at whether this chunk set the id.
StderrForwardedUnlessFound(session, text) ==
    ~(StderrScan[text] # NoMatch /\ session.copilotSessionId = NoMatch)

\* The stderr handler's test for forwarding a chunk:
\* !foundSessionId && !text.toLowerCase().includes('session').
StderrForwarded(session, text) ==
    /\ ~(StderrScan[text] # NoMatch /\ session.copilotSessionId = NoMatch)
    /\ ~MentionsSession[text]

\* copilotProcess.stderr.on('data'): scan for a session id; accumulate and
\* forward the chunk only when it carries no session info.
StderrData(p, text) ==
    /\ p \in Pids
    /\ CanEmit(p)
    /\ LET c == procs[p].conn
           o == conn[c].session
       IN  /\ heap' = [heap EXCEPT ![o] = Latch(@, StderrScan[text])]
           /\ IF StderrForwarded(heap[o], text)
              THEN /\ procs' = [procs EXCEPT ![p].content = @ \o text,
                                             ![p].nchunks = @ + 1,
                                             ![p].output = Append(@, Chunk("stderr", text))]
                   /\ sent' = Send(sent, c, <<[type |-> "stream", turn |-> p,
                                               content |-> text]>>)
              ELSE /\ procs' = [procs EXCEPT ![p].nchunks = @ + 1,
                                             ![p].output = Append(@, Chunk("stderr", text))]
                   /\ sent' = sent
    /\ UNCHANGED <<sessions, activeProcesses, conn>>

\* The accumulated content as it is, empty or not.
RawContent(content) == content

\* assistantContent || 'No response from Copilot CLI. ...'
CompletionContent(content) == IF content = <<>> THEN Fallback ELSE content

\* The Messages the 'close' handler appends to the session for process p.
CloseMessages(p) ==
    <<[role |-> "assistant", content |-> CompletionContent(procs[p].content),
       turn |-> p]>>

\* A 'close' handler that sends no frame.
CloseFramesNone(p) == <<>>

\* The frames the 'close' handler sends for process p.
CloseFrames(p) ==
    <<[type |-> "complete", turn |-> p,
       content |-> CompletionContent(procs[p].content)]>>

\* A 'close' handler that reports a non-zero exit code as an error.
ExitFramesByCode(p, code) ==
    IF code = 0 THEN CloseFrames(p) ELSE ErrorFrames(p)

\* The frames the 'close' handler sends for process p that exited with
\* `code`: the code is logged and nothing else is done with it.
ExitFrames(p, code) == CloseFrames(p)

\* The registry after the 'close' handler's activeProcesses.delete(sessionId).
Unregister(p) == [activeProcesses EXCEPT ![procs[p].sid] = None]

\* The body of the 'close' handler for process p that ended with `code`,
\* after the frames `before` were sent in the same step: append the
\* assistant Message, drop the registry entry, send 'complete'.
OnClose(p, before, code) ==
    /\ LET c == procs[p].conn
           o == conn[c].session
       IN  /\ heap' = [heap EXCEPT ![o].messages = @ \o CloseMessages(p)]
           /\ activeProcesses' = Unregister(p)
           /\ sent' = Send(sent, c, before \o ExitFrames(p, code))
    /\ procs' = [procs EXCEPT ![p].state = "closed", ![p].exit = <<code>>]
    /\ UNCHANGED <<sessions, conn>>

\* copilotProcess.on('close'): a spawned child has ended with exit code
\* `code` and its streams are closed.
ProcClose(p, code) ==
    /\ p \in Pids
    /\ procs[p].state = "running"
    /\ procs[p].kind = "spawned"
    /\ OnClose(p, <<>>, code)

\* copilotProcess.on('error'): the child could not be spawned; send 'error'.
\* The runtime emits 'error' and then 'close' from one callback (a child
\* without a pid has no streams to wait for), so the 'close' handler runs
\* in the same step, with the negated errno of the failure as its code.
ProcError(p) ==
    /\ p \in Pids
    /\ procs[p].state = "running"
    /\ procs[p].kind = "failed"
    /\ OnClose(p, ErrorFrames(p), -2)

\* The processes ws.on('close') kills for session id sid.
CloseKills(sid) == {activeProcesses[sid]} \ {None}

\* ws.on('close'): kill the process registered for the session id and drop
\* the registry entry.
WsClose(c, honoured) ==
    /\ conn[c].state = "open"
    /\ conn' = [conn EXCEPT ![c].state = "closed"]
    /\ procs' = [p \in Pids |->
                    IF p \in CloseKills(conn[c].sid)
                    THEN Kill(procs, p, honoured)[p] ELSE procs[p]]
    /\ activeProcesses' = [activeProcesses EXCEPT ![conn[c].sid] = None]
    /\ UNCHANGED <<sessions, heap, sent>>

\* app.delete('/api/sessions/:id'): kill the registered process, drop the
\* registry entry and the session map entry (for any id, known or not).
DeleteSession(sid, honoured) ==
    /\ procs' = IF activeProcesses[sid] # None
                THEN Kill(procs, activeProcesses[sid], honoured) ELSE procs
    /\ activeProcesses' = [activeProcesses EXCEPT ![sid] = None]
    /\ sessions' = [sessions EXCEPT ![sid] = None]
    /\ UNCHANGED <<heap, conn, sent>>

\* The steps of chat turns whose children write chunks of `texts`.
Turns(texts) ==
    \/ \E c \in Conns, sid \in SessionIds : WsConnect(c, sid)
    \/ \E c \in Conns, content \in Contents, kind \in ProcKinds :
           WsMessage(c, content, kind)
    \/ \E c \in Conns, honoured \in BOOLEAN : WsCancel(c, honoured)
    \/ \E p \in 1..MaxProcs, text \in texts : StdoutData(p, text)
    \/ \E p \in 1..MaxProcs, text \in texts : StderrData(p, text)
    \/ \E p \in 1..MaxProcs, code \in ExitCodes : ProcClose(p, code)
    \/ \E p \in 1..MaxProcs : ProcError(p)
    \/ \E c \in Conns, honoured \in BOOLEAN : WsClose(c, honoured)
    \/ \E sid \in SessionIds, honoured \in BOOLEAN : DeleteSession(sid, honoured)

\* Chat turns with every kind of chunk; no client changes the model.
Next == Turns(ChunkTexts)

Spec == Init /\ [][Next]_vars

\* Chat turns whose children write ordinary output.
ProseNext == Turns(ProseTexts)

ProseSpec == Init /\ [][ProseNext]_vars

\* Chat turns with plain chunks, and clients that change the model.
ModelNext ==
    \/ Turns(PlainTexts)
    \/ \E c \in Conns, model \in ModelIds : WsSetModel(c, model)

ModelSpec == Init /\ [][ModelNext]_vars

\* A text of n characters.
TextOf(n) == [i \in 1..n |-> "x"]
\* Contents of the Messages a session holds when a connection finds it:
\* short, exactly at the truncation ceiling, just over it, well over it.
HistoryContents ==
    {<<"h","i">>, TextOf(TruncateAt), TextOf(TruncateAt + 1),
     TextOf(TruncateAt + 40)}
\* The histories of such a session: at most MaxHistory Messages, of earlier
\* turns (turn 0), the first of them a user Message.
Histories ==
    UNION {{h \in [1..n -> [role : {"user", "assistant"},
                            content : HistoryContents, turn : {0}]] :
               n > 0 => h[1].role = "user"} : n \in 0..MaxHistory}
\* data.content of the 'message' frames of the prompt specification.
PromptContents == Contents \cup {TextOf(TruncateAt + 1)}

\* A connection is open on a session that holds a history.
PromptInit ==
    /\ sessions = [s \in SessionIds |-> 1]
    /\ \E h \in Histories :
          heap = [c \in Conns |-> [NewSession EXCEPT !.messages = h]]
    /\ activeProcesses = [s \in SessionIds |-> None]
    /\ conn = [c \in Conns |-> [state |-> "open", sid |-> "s1", session |-> c,
                               acks |-> <<>>]]
    /\ procs = <<>>
    /\ sent = [p \in 1..MaxProcs |-> <<>>]

\* Turns on that session: messages of any length, and children that end
\* without output.
PromptNext ==
    \/ \E c \in Conns, content \in PromptContents, kind \in ProcKinds :
           WsMessage(c, content, kind)
    \/ \E p \in 1..MaxProcs, code \in ExitCodes : ProcClose(p, code)
    \/ \E p \in 1..MaxProcs : ProcError(p)

PromptSpec == PromptInit /\ [][PromptNext]_vars

\* The characters the escaping chain treats, two ordinary ones, and a
\* control character it has no step for (form feed).
EscapeAlphabet ==
    {"a", "n", "\\", "\"", Backtick, "$", "!", "\n", "\r", "\f"}
\* data.content of the 'message' frames of the escaping specification.
EscapeContents == UNION {[1..n -> EscapeAlphabet] : n \in 1..MaxEscLen}

\* Turns whose messages hold the characters of the escaping.
EscapeNext ==
    \/ \E c \in Conns, sid \in SessionIds : WsConnect(c, sid)
    \/ \E c \in Conns, content \in EscapeContents, kind \in ProcKinds :
           WsMessage(c, content, kind)

EscapeSpec == Init /\ [][EscapeNext]_vars

\* The scheduling the runtime guarantees: a child that was sent SIGTERM and
\* honours it ends, and a child that could not be spawned gets its 'error'
\* and 'close' events. Nothing makes a child end that ignores
\* SIGTERM, and no child has to end by itself.
TermExit(p) ==
    /\ p \in Pids
    /\ procs[p].sig = "term"
    /\ \E code \in ExitCodes : ProcClose(p, code)

FairSpec ==
    /\ Spec
    /\ \A p \in 1..MaxProcs :
          WF_vars(TermExit(p)) /\ WF_vars(ProcError(p))

(***************************************************************************)
(* Vocabulary of the properties.                                           *)
(***************************************************************************)
\* The frame types of turn p, in sending order.
Types(p) == [i \in 1..Len(sent[p]) |-> sent[p][i].type]
\* The positions of frames of type t in turn p.
At(p, t) == {i \in 1..Len(sent[p]) : sent[p][i].type = t}
Terminal == {"complete", "cancelled", "error"}
\* Launched and not yet closed.
Live(p) == p \in Pids /\ procs[p].state = "running"
LiveFor(sid) == {p \in Pids : procs[p].sid = sid /\ Live(p)}
\* The session object turn p works on.
SessionOf(p) == heap[conn[procs[p].conn].session]
\* The Messages of role r the session holds for turn p.
MessagesOf(p, r) ==
    {i \in 1..Len(SessionOf(p).messages) :
        /\ SessionOf(p).messages[i].turn = p
        /\ SessionOf(p).messages[i].role = r}

\* C1: in every reachable state every session id has at most one live child
\* process (launched for it and not yet closed).
C1_AtMostOneLive ==
    \A sid \in SessionIds : Cardinality(LiveFor(sid)) <= 1

\* C2: a 'message' frame that arrives while the session has a live process
\* launches no process and appends no Message: every step that spawns a
\* process or appends a user Message starts from a state in which the
\* session has no live process.
C2_RejectedWhileLive ==
    [][Len(procs') > Len(procs)
          => LiveFor(procs'[Len(procs')].sid) = {}]_vars

\* A turn that is running or has ended by normal exit: its process was
\* spawned, no kill was ever sent to it, and its connection is open, so all
\* its frames were delivered.
Undisturbed(p) ==
    /\ procs[p].kind = "spawned"
    /\ procs[p].sig = "none"
    /\ conn[procs[p].conn].state = "open"

\* user_message, then n stream frames.
EchoThenStreams(types, n) ==
    /\ Len(types) >= 1 + n
    /\ types[1] = "user_message"
    /\ \A i \in 2..(1 + n) : types[i] = "stream"

\* C3: a turn that ends by normal process exit without a cancel has the
\* frames user_message, stream*, complete, in this order and nothing else;
\* while it runs its frames are user_message, stream*, so no stream frame
\* precedes the user_message or follows the complete.
C3_FrameOrder ==
    \A p \in Pids :
        Undisturbed(p) =>
            IF procs[p].state = "closed"
            THEN /\ EchoThenStreams(Types(p), Len(sent[p]) - 2)
                 /\ Types(p)[Len(sent[p])] = "complete"
            ELSE EchoThenStreams(Types(p), Len(sent[p]) - 1)

\* C3 witness: a turn ended by normal exit after a stream frame.
C3_Witness ==
    \E p \in Pids :
        /\ Undisturbed(p)
        /\ procs[p].state = "closed"
        /\ Types(p) = <<"user_message", "stream", "complete">>

\* C4: once the cancelled frame of a turn was sent, no complete frame is
\* sent for that turn.
C4_NoCompleteAfterCancelled ==
    \A p \in Pids :
        \A i \in At(p, "cancelled"), j \in At(p, "complete") : j < i

\* C5: the session never holds an assistant Message for a cancelled turn.
C5_NoAssistantForCancelled ==
    \A p \in Pids :
        At(p, "cancelled") # {} => MessagesOf(p, "assistant") = {}

\* C6: once the cancelled frame of a turn was sent, no stream frame is sent
\* for that turn.
C6_NoStreamAfterCancelled ==
    \A p \in Pids :
        \A i \in At(p, "cancelled"), j \in At(p, "stream") : j < i

\* C7: no turn has two terminal frames (complete, cancelled, error).
C7_OneTerminal ==
    \A p \in Pids :
        Cardinality({i \in 1..Len(sent[p]) : sent[p][i].type \in Terminal}) <= 1

\* C8: a child process whose turn was cancelled eventually stops running.
C8_CancelTerminates ==
    \A p \in 1..MaxProcs :
        (p \in Pids /\ At(p, "cancelled") # {})
            ~> (p \in Pids /\ procs[p].state = "closed")

\* C9: no orphaned process. On connection close every still-running process
\* launched over the connection has been sent a kill; and once a turn of a
\* session was cancelled or has completed, every running process of the
\* session is registered or has been sent a kill.
C9_NoOrphan ==
    \A p \in Pids :
        (Live(p) /\ procs[p].kind = "spawned" /\ procs[p].sig = "none") =>
            /\ conn[procs[p].conn].state # "closed"
            /\ (\E q \in Pids :
                    /\ procs[q].sid = procs[p].sid
                    /\ (procs[q].state = "closed" \/ At(q, "cancelled") # {}))
                  => activeProcesses[procs[p].sid] = p

\* C10: the step that sends a terminal frame of a turn (complete, cancelled
\* or error) leaves the session Idle: the registry holds no handle for the
\* session.
C10_IdleAfterTerminal ==
    [][\A p \in 1..MaxProcs :
          (/\ p <= Len(procs')
           /\ Len(sent'[p]) > Len(sent[p])
           /\ sent'[p][Len(sent'[p])].type \in Terminal)
              => activeProcesses'[procs'[p].sid] = None]_vars

\* The pattern list of the handler of a stream.
PatternsOf(stream) ==
    IF stream = "stdout" THEN StdoutPatterns ELSE StderrPatterns

\* What the handler of its stream finds in a chunk.
ScanOf(chunk) ==
    IF chunk.stream = "stdout" THEN StdoutScan[chunk.text]
    ELSE StderrScan[chunk.text]

\* C11: the continuation identifier is latched: no step changes a
\* copilotSessionId that is set.
C11_Latched ==
    [][\A o \in Conns :
          heap[o].copilotSessionId # NoMatch
              => heap'[o].copilotSessionId = heap[o].copilotSessionId]_vars

\* C11 witness: a child wrote a chunk with an identifier, which was stored,
\* and later a chunk with another identifier.
C11_Witness ==
    \E p \in Pids :
        \E i, j \in 1..Len(procs[p].output) :
            /\ i < j
            /\ ScanOf(procs[p].output[i]) # NoMatch
            /\ ScanOf(procs[p].output[j]) # NoMatch
            /\ ScanOf(procs[p].output[j]) # ScanOf(procs[p].output[i])
            /\ SessionOf(p).copilotSessionId = ScanOf(procs[p].output[i])[1]

\* Where pattern pat first matches in text (0: nowhere).
MatchPos(text, pat) ==
    LET hits == {i \in 1..Len(text) : MatchFrom(pat, 1, text, i, <<>>) # NoMatch}
    IN  IF hits = {} THEN 0 ELSE CHOOSE i \in hits : \A j \in hits : i <= j

\* The match that occurs first in text, whichever pattern of pats makes it
\* (of two matches at the same place, the one of the pattern listed first).
EarliestMatch(text, pats) ==
    LET ks == {k \in 1..Len(pats) : MatchPos(text, pats[k]) > 0}
    IN  IF ks = {} THEN NoMatch
        ELSE Match(text, pats[CHOOSE k \in ks : \A m \in ks :
                        \/ MatchPos(text, pats[k]) < MatchPos(text, pats[m])
                        \/ /\ MatchPos(text, pats[k]) = MatchPos(text, pats[m])
                           /\ k <= m])

\* EarliestMatch for each stream and chunk text, tabulated.
EarliestScan ==
    [stream \in {"stdout", "stderr"} |->
        [t \in AllTexts |-> EarliestMatch(t, PatternsOf(stream))]]

\* The chunks of an output in which some pattern of their stream matches.
Matching(output) ==
    {i \in 1..Len(output) :
        EarliestScan[output[i].stream][output[i].text] # NoMatch}

\* The identifier that occurs first in an output with a match: the earliest
\* match of the first chunk that has one.
FirstId(output) ==
    LET i == CHOOSE i \in Matching(output) : \A j \in Matching(output) : i <= j
    IN  EarliestScan[output[i].stream][output[i].text][1]

\* C12: first-match-wins. When the output of a process has pattern matches
\* and no other process of the session has written any, the stored
\* identifier is the token of the match that occurs first in the output, in
\* chunk-arrival order and, within a chunk, in the text.
C12_FirstMatchWins ==
    \A p \in Pids :
        (/\ Matching(procs[p].output) # {}
         /\ \A q \in Pids \ {p} :
               conn[procs[q].conn].session = conn[procs[p].conn].session
                   => Matching(procs[q].output) = {})
            => SessionOf(p).copilotSessionId = FirstId(procs[p].output)

\* C13: never-empty completion. The content of every assistant Message and
\* of every complete frame is non-empty, and it is the fallback text when
\* the turn accumulated no forwarded output (for a delivered complete frame:
\* when no stream frame of the turn precedes it).
C13_NeverEmpty ==
    \A p \in Pids :
        /\ \A i \in MessagesOf(p, "assistant") :
              /\ SessionOf(p).messages[i].content # <<>>
              /\ procs[p].content = <<>>
                    => SessionOf(p).messages[i].content = Fallback
        /\ \A i \in At(p, "complete") :
              /\ sent[p][i].content # <<>>
              /\ At(p, "stream") = {} => sent[p][i].content = Fallback

\* C13 witness: a spawned child wrote output of which nothing was forwarded,
\* then exited; the Message and the complete frame carry the fallback text.
C13_Witness ==
    \E p \in Pids :
        /\ procs[p].kind = "spawned"
        /\ procs[p].output # <<>>
        /\ procs[p].content = <<>>
        /\ \E i \in MessagesOf(p, "assistant") :
              SessionOf(p).messages[i].content = Fallback
        /\ \E i \in At(p, "complete") : sent[p][i].content = Fallback

\* The contents of the frames of type t in a frame list, concatenated in
\* sending order.
RECURSIVE ConcatOf(_, _)
ConcatOf(frames, t) ==
    IF frames = <<>> THEN <<>>
    ELSE (IF frames[1].type = t THEN frames[1].content ELSE <<>>)
             \o ConcatOf(Tail(frames), t)

\* C14: for a turn with at least one stream frame, the content of the
\* complete frame is the concatenation of the contents of the turn's stream
\* frames in sending order, and the assistant Message appended to the
\* session for the turn has the same content as the complete frame.
C14_CompleteIsConcatenation ==
    \A p \in Pids :
        \A i \in At(p, "complete") :
            /\ At(p, "stream") # {}
                  => sent[p][i].content = ConcatOf(sent[p], "stream")
            /\ \A j \in MessagesOf(p, "assistant") :
                  SessionOf(p).messages[j].content = sent[p][i].content
            /\ MessagesOf(p, "assistant") # {}

\* C14 witness: a turn with two forwarded chunks, one of each stream, and
\* its complete frame.
C14_Witness ==
    \E p \in Pids :
        /\ Cardinality(At(p, "stream")) = 2
        /\ At(p, "complete") # {}
        /\ \E i, j \in 1..Len(procs[p].output) :
              /\ procs[p].output[i].stream = "stdout"
              /\ procs[p].output[j].stream = "stderr"

\* C15: a child that could not be started ('error' event) gets an error
\* frame, and no assistant Message is appended for its turn (nothing was
\* streamed for it: such a child writes nothing).
C15_LaunchFailure ==
    \A p \in Pids :
        (procs[p].kind = "failed" /\ procs[p].state = "closed") =>
            /\ conn[procs[p].conn].state = "open" => At(p, "error") # {}
            /\ MessagesOf(p, "assistant") = {}

\* C16: a non-zero exit code is no error of the protocol. For every exit
\* code, a spawned child that exits without its turn having been cancelled
\* gets exactly one complete frame, with the accumulated content (the
\* fallback text when that is empty), and no error frame.
C16_ExitCodeIgnored ==
    \A p \in Pids :
        (/\ procs[p].kind = "spawned"
         /\ procs[p].state = "closed"
         /\ At(p, "cancelled") = {}
         /\ conn[procs[p].conn].state = "open")
            => /\ Cardinality(At(p, "complete")) = 1
               /\ \A i \in At(p, "complete") :
                     sent[p][i].content =
                         IF procs[p].content = <<>> THEN Fallback
                         ELSE procs[p].content
               /\ At(p, "error") = {}

\* C16 witness: a child exited with a non-zero code after forwarded output,
\* uncancelled, and its turn has a complete frame.
C16_Witness ==
    \E p \in Pids :
        /\ procs[p].exit = <<1>>
        /\ procs[p].content # <<>>
        /\ At(p, "cancelled") = {}
        /\ At(p, "complete") # {}

\* C17: set_model. A step that handles a set_model frame (the connection's
\* acknowledgements grow) sends model_set with the model it stores, changes
\* nothing of the session but its model, and touches no process, frame of a
\* turn or registry entry; no step changes the command of a launched
\* process; and a launch uses the model the session holds at that moment.
C17_SetModel ==
    [][/\ \A c \in Conns :
             Len(conn'[c].acks) > Len(conn[c].acks) =>
                 LET o == conn[c].session
                     ack == conn'[c].acks[Len(conn'[c].acks)]
                 IN  /\ ack.type = "model_set"
                     /\ heap' = [heap EXCEPT ![o].model = ack.model]
                     /\ UNCHANGED <<sessions, activeProcesses, procs, sent>>
       /\ \A p \in Pids : procs'[p].command = procs[p].command
       /\ Len(procs') > Len(procs) =>
             procs'[Len(procs')].command.model =
                 heap[conn[procs'[Len(procs')].conn].session].model]_vars

\* C17 witness: a set_model frame arrived while a child was running; the
\* child keeps the model of its launch, and the process launched next has
\* the new model.
C17_Witness ==
    \E p, q \in Pids :
        /\ p < q
        /\ procs[p].state = "running"
        /\ procs[p].kind = "spawned"
        /\ procs[p].command.model = DefaultModel
        /\ procs[q].command.model = "gpt-5"
        /\ \E c \in Conns : conn[c].acks = ModelSetFrames("gpt-5")

\* The spawned children of session id sid that are still running.
Children(sid) ==
    {p \in Pids : procs[p].sid = sid /\ Live(p) /\ procs[p].kind = "spawned"}

\* C18: a session is destroyed when its owning connection closes or when
\* it is deleted: after the step that closes a connection, and after the
\* step that deletes a session, the session id is not in the session map
\* and every child that was running for it has been sent a kill.
C18_Destroyed ==
    [][/\ \A c \in Conns :
             (conn[c].state = "open" /\ conn'[c].state = "closed") =>
                 /\ sessions'[conn[c].sid] = None
                 /\ \A p \in Children(conn[c].sid) : procs'[p].sig # "none"
       /\ \A sid \in SessionIds :
             (sessions[sid] # None /\ sessions'[sid] = None) =>
                 \A p \in Children(sid) : procs'[p].sig # "none"]_vars

\* The Messages the session of turn p held when the turn's message arrived.
Prior(p) ==
    LET msgs == SessionOf(p).messages
        at == CHOOSE i \in 1..Len(msgs) :
                  msgs[i].turn = p /\ msgs[i].role = "user"
    IN  SubSeq(msgs, 1, at - 1)

\* Messages one after the other, each as "<RoleLabel>: <content>" and a
\* blank line after it.
RECURSIVE TurnsOf(_)
TurnsOf(msgs) ==
    IF msgs = <<>> THEN <<>>
    ELSE RoleLabel(msgs[1].role) \o <<":", " ">> \o msgs[1].content
             \o <<"\n", "\n">> \o TurnsOf(Tail(msgs))

\* The wrapped prompt: the preamble, the prior turns, the new utterance as
\* the final Human turn, the postamble.
Wrapped(prior, content) ==
    Preamble \o TurnsOf(prior) \o Human \o <<":", " ">> \o content
        \o Postamble

\* C19: prompt assembly. A launch from a session without prior messages
\* gets the new content verbatim. Otherwise the prompt is the preamble,
\* every prior message once, in the order of the history, as
\* "<RoleLabel>: <content>", then the new utterance as the final turn, then
\* the postamble; the new utterance, though already pushed to the history,
\* is not among the prior turns. (Prior messages of at most TruncateAt
\* characters; longer ones are the matter of C20.)
C19_PromptAssembly ==
    [][Len(procs') > Len(procs) =>
          LET p == Len(procs')
              o == conn[procs'[p].conn].session
              prior == heap[o].messages
              pushed == heap'[o].messages[Len(heap'[o].messages)]
              prompt == procs'[p].command.fullPrompt
          IN  /\ heap'[o].messages = Append(prior, pushed)
              /\ prior = <<>> => prompt = pushed.content
              /\ (/\ prior # <<>>
                  /\ \A i \in 1..Len(prior) :
                        Len(prior[i].content) <= TruncateAt)
                    => prompt = Wrapped(prior, pushed.content)]_vars

\* C19 witness: a turn launched from a history of a user and an assistant
\* Message, with the wrapped prompt.
C19_Witness ==
    \E p \in Pids :
        /\ Len(Prior(p)) = 2
        /\ Prior(p)[1].role = "user"
        /\ Prior(p)[2].role = "assistant"
        /\ procs[p].command.fullPrompt =
               Wrapped(Prior(p), <<"h", "i">>)

\* Messages with their content cut to the budget: unchanged up to
\* TruncateAt characters, else the first TruncateAt and the marker.
Cut(msgs) ==
    [i \in 1..Len(msgs) |->
        [msgs[i] EXCEPT !.content =
            IF Len(@) <= TruncateAt THEN @
            ELSE SubSeq(@, 1, TruncateAt) \o TruncationMarker]]

\* The most a prior message adds to the history beyond its budget of
\* TruncateAt characters: label, ": ", marker, blank line.
Overhead == Len(Assistant) + 2 + Len(TruncationMarker) + 2

\* The content of the user Message of turn p.
Utterance(p) ==
    LET msgs == SessionOf(p).messages
    IN  msgs[CHOOSE i \in 1..Len(msgs) :
                 msgs[i].turn = p /\ msgs[i].role = "user"].content

\* The length of the rendered history inside the wrapped prompt of turn p.
HistoryLen(p) ==
    Len(procs[p].command.fullPrompt) - Len(Preamble) - Len(NewTurn)
        - Len(Utterance(p)) - Len(Postamble)

\* C20: truncation budget. In the prompt of a turn with prior messages,
\* every prior message of at most TruncateAt characters is rendered
\* unchanged, every longer one as its first TruncateAt characters and the
\* marker, and the rendered history is at most
\* Len(history) * (TruncateAt + Overhead) characters long.
C20_TruncationBudget ==
    \A p \in Pids :
        Prior(p) # <<>> =>
            /\ procs[p].command.fullPrompt =
                   Wrapped(Cut(Prior(p)), Utterance(p))
            /\ HistoryLen(p) <= Len(Prior(p)) * (TruncateAt + Overhead)

\* C20 witness: a turn whose history holds a message of exactly TruncateAt
\* characters and a longer one; its rendered history is shorter than the
\* messages it renders.
C20_Witness ==
    \E p \in Pids :
        /\ \E i, j \in 1..Len(Prior(p)) :
              /\ Len(Prior(p)[i].content) = TruncateAt
              /\ Len(Prior(p)[j].content) = TruncateAt + 40
        /\ HistoryLen(p) < 2 * TruncateAt + 40

\* C21: the model of every launched command is one of the available-model
\* list, whatever a set_model frame supplied.
C21_ModelInRegistry ==
    \A p \in Pids : procs[p].command.model \in AvailableModels

\* C22: Messages are immutable once appended: at every step the message
\* sequence of every session before the step is a prefix of the sequence
\* after it.
C22_AppendOnly ==
    [][\A o \in Conns :
          /\ Len(heap'[o].messages) >= Len(heap[o].messages)
          /\ SubSeq(heap'[o].messages, 1, Len(heap[o].messages))
                 = heap[o].messages]_vars

\* C22 witness: a session that holds the Messages of a finished turn and
\* the user Message of the next.
C22_Witness ==
    \E o \in Conns :
        /\ Len(heap[o].messages) >= 3
        /\ heap[o].messages[1].role = "user"
        /\ heap[o].messages[2].role = "assistant"
        /\ heap[o].messages[3].role = "user"

\* Process p has just received a chunk of `stream` (the step appends it to
\* the output of p).
Arrives(p, stream) ==
    /\ p \in Pids
    /\ Len(procs'[p].output) = Len(procs[p].output) + 1
    /\ procs'[p].output[Len(procs'[p].output)].stream = stream

\* The text of the chunk that has just arrived at process p.
Arrived(p) == procs'[p].output[Len(procs'[p].output)].text

\* C23: a stderr chunk in which a continuation-identifier pattern matches
\* is suppressed, whether or not an identifier is already stored: the step
\* that handles it sends no frame and leaves the accumulated content.
C23_PatternChunkSuppressed ==
    [][\A p \in 1..MaxProcs :
          (Arrives(p, "stderr") /\ StderrScan[Arrived(p)] # NoMatch)
              => /\ sent' = sent
                 /\ procs'[p].content = procs[p].content]_vars

\* C23 witness: an identifier was stored from a stdout chunk, then a stderr
\* chunk with a pattern match arrived, and only the stdout chunk was
\* accumulated and forwarded.
C23_Witness ==
    \E p \in Pids :
        /\ Len(procs[p].output) = 2
        /\ procs[p].output[1].stream = "stdout"
        /\ StdoutScan[procs[p].output[1].text] # NoMatch
        /\ procs[p].output[2].stream = "stderr"
        /\ StderrScan[procs[p].output[2].text] # NoMatch
        /\ procs[p].content = procs[p].output[1].text
        /\ Cardinality(At(p, "stream")) = 1

\* C24: a stderr chunk in which no continuation-identifier pattern matches
\* is forwarded as content: the step that handles it adds the text to the
\* accumulated content and sends one stream frame with it (on an open
\* connection).
C24_OtherChunkForwarded ==
    [][\A p \in 1..MaxProcs :
          (Arrives(p, "stderr") /\ StderrScan[Arrived(p)] = NoMatch)
              => /\ procs'[p].content = procs[p].content \o Arrived(p)
                 /\ conn[procs[p].conn].state = "open"
                       => sent'[p] = Append(sent[p],
                              [type |-> "stream", turn |-> p,
                               content |-> Arrived(p)])]_vars

\* The number of stream frames in a frame list.
Streams(frames) == Cardinality({i \in 1..Len(frames) : frames[i].type = "stream"})

\* C25: on an open connection the step that handles a stdout chunk appends
\* exactly one stream frame, with the chunk's text, to the frames of the
\* turn (so the frames of one stream are in arrival order, none lost or
\* doubled), and stream frames are sent by no step but one that handles a
\* chunk, one frame at most.
C25_OneFramePerStdoutChunk ==
    [][\A p \in 1..MaxProcs :
          /\ (Arrives(p, "stdout") /\ conn[procs[p].conn].state = "open")
                => sent'[p] = Append(sent[p],
                                     [type |-> "stream", turn |-> p,
                                      content |-> Arrived(p)])
          /\ Streams(sent'[p]) > Streams(sent[p])
                => /\ Streams(sent'[p]) = Streams(sent[p]) + 1
                   /\ Arrives(p, "stdout") \/ Arrives(p, "stderr")]_vars

\* C25 witness: two different stdout chunks arrived and their frames are in
\* the order of arrival.
C25_Witness ==
    \E p \in Pids :
        /\ Len(procs[p].output) = 2
        /\ procs[p].output[1].stream = "stdout"
        /\ procs[p].output[2].stream = "stdout"
        /\ procs[p].output[1].text # procs[p].output[2].text
        /\ Len(sent[p]) = 3
        /\ sent[p][2].content = procs[p].output[1].text
        /\ sent[p][3].content = procs[p].output[2].text

\* The number of backslashes that stand immediately before text[i].
RECURSIVE BackslashesBefore(_, _)
BackslashesBefore(text, i) ==
    IF i = 1 \/ text[i - 1] # "\\" THEN 0
    ELSE 1 + BackslashesBefore(text, i - 1)

\* text[i] is preceded by an escaping backslash (one that is not itself
\* escaped).
Escaped(text, i) == BackslashesBefore(text, i) % 2 = 1

\* An escaped text read back: an escaping backslash is dropped and the
\* character after it stands for itself, backslash-n for a newline.
Unescape(text) ==
    LET read == [i \in 1..Len(text) |->
                    IF text[i] = "\\" /\ ~Escaped(text, i) /\ i < Len(text)
                    THEN ""
                    ELSE IF Escaped(text, i) /\ text[i] = "n" THEN "\n"
                    ELSE text[i]]
        Kept(ch) == ch # ""
    IN  SelectSeq(read, Kept)

\* A text without its carriage returns.
WithoutCR(text) ==
    LET Kept(ch) == ch # "\r"
    IN  SelectSeq(text, Kept)

\* C26: shell escaping. In the escaped prompt of every command no newline
\* or carriage return remains; every double quote, backtick, dollar sign
\* and exclamation mark is preceded by an escaping backslash; every
\* escaping backslash is followed by a character it escapes; and, read
\* back, the escaped prompt is the assembled prompt without its carriage
\* returns, so every backslash of the prompt was escaped and no escape was
\* escaped again.
C26_ShellEscaping ==
    \A p \in Pids :
        LET f == procs[p].command.fullPrompt
            e == procs[p].command.escapedPrompt
        IN  /\ \A i \in 1..Len(e) : e[i] \notin {"\n", "\r"}
            /\ \A i \in 1..Len(e) :
                  e[i] \in {"\"", Backtick, "$", "!"} => Escaped(e, i)
            /\ \A i \in 1..Len(e) :
                  (e[i] = "\\" /\ ~Escaped(e, i)) =>
                      /\ i < Len(e)
                      /\ e[i + 1] \in {"\\", "\"", Backtick, "$", "!", "n"}
            /\ Unescape(e) = WithoutCR(f)

\* C26 witness: a prompt of a backslash and a double quote, escaped as
\* two backslashes, a backslash and the double quote.
C26_Witness ==
    \E p \in Pids :
        /\ procs[p].command.fullPrompt = <<"\\", "\"">>
        /\ procs[p].command.escapedPrompt = <<"\\", "\\", "\\", "\"">>

\* Control characters for which the escaping has no step.
Unescapable == {"\f"}

\* C27: a prompt with an unescapable control character is rejected: its
\* turn gets an error frame and no child process is started for it.
C27_ControlCharRejected ==
    \A p \in Pids :
        (\E i \in 1..Len(procs[p].command.fullPrompt) :
             procs[p].command.fullPrompt[i] \in Unescapable)
            => /\ procs[p].kind = "threw"
               /\ conn[procs[p].conn].state = "open" => At(p, "error") # {}

\* Values of copilotSessionId a run may differ in: none captured, and two
\* identifiers.
OtherIds == {NoMatch, <<"a", "1">>, <<"z">>}

\* C28: the captured continuation identifier does not influence launches.
\* The command of every launch is the one the same session would launch
\* with any other value of copilotSessionId, or none, and otherwise the
\* same history, new content, model and workspace.
C28_IdNotFedBack ==
    [][Len(procs') > Len(procs) =>
          LET p == Len(procs')
              o == conn[procs'[p].conn].session
              content == heap'[o].messages[Len(heap'[o].messages)].content
          IN  \A id \in OtherIds :
                  procs'[p].command =
                      Command([heap'[o] EXCEPT !.copilotSessionId = id],
                              content)]_vars

\* C28 witness: a second turn launched after the first one, whose output
\* held an identifier, has closed: the session holds the identifier and
\* the second command was built from the history of the first turn.
C28_Witness ==
    /\ Len(procs) = 2
    /\ procs[1].state = "closed"
    /\ Matching(procs[1].output) # {}
    /\ SessionOf(2).copilotSessionId = <<"a", "1">>
    /\ \E i \in 1..Len(Prior(2)) :
          Prior(2)[i].role = "assistant" /\ Prior(2)[i].turn = 1
    /\ procs[2].kind = "spawned"

\* The first child was cancelled while registered (so before the second
\* turn began) and has closed; the second child is running, was never sent
\* a kill, and the connection is open.
LateClose ==
    /\ Len(procs) = 2
    /\ procs[1].sig # "none"
    /\ procs[1].state = "closed"
    /\ Live(2) /\ procs[2].kind = "spawned" /\ procs[2].sig = "none"
    /\ conn[procs[2].conn].state = "open"
    /\ sessions[procs[2].sid] # None

\* C29: cancel always reaches the live process. Every child that is
\* running and has not been sent a kill is the registry's entry for its
\* session id, so a 'cancel' frame kills it; in particular when the 'close'
\* of a cancelled child arrives after the next turn's child was registered.
C29_CancelReaches ==
    /\ \A p \in Pids :
          (Live(p) /\ procs[p].kind = "spawned" /\ procs[p].sig = "none")
              => activeProcesses[procs[p].sid] = p
    /\ LateClose => activeProcesses[procs[2].sid] = 2

\* C30: no turn on a deleted session. While a connection is open, a step
\* that appends a Message to the session object the connection works on,
\* or launches a process for the connection, finds that object registered
\* in the session map under the connection's session id.
C30_NoTurnOnDeleted ==
    [][/\ \A c \in Conns :
            (/\ conn[c].state = "open"
             /\ heap'[conn[c].session].messages
                    # heap[conn[c].session].messages)
                => sessions[conn[c].sid] = conn[c].session
       /\ Len(procs') > Len(procs) =>
            LET c == procs'[Len(procs')].conn
            IN  sessions[conn[c].sid] = conn[c].session]_vars

====
